---- MODULE Spec2Model ----
(***************************************************************************)
(* merkdir: Merkle trees of directories (RFC 9162 section 2.1 style).      *)
(*                                                                         *)
(* Two state machines share this module:                                   *)
(*   Spec     the merkle package used as a library and by the inclusion /  *)
(*            verify-inclusion commands: leaves are created, CreateTree    *)
(*            builds the tree, GetInclusionProof / GetLeaf walk it, a      *)
(*            proof file may be altered, CalcInclusionProof folds it.      *)
(*   SpecGen  the worker pool of the gen command (goroutines, unbuffered   *)
(*            channels, WaitGroup, coordinator select loop).               *)
(*                                                                         *)
(* Hashing (blake3) is a free constructor: a digest is the tuple of what   *)
(* was written to the hasher, so two digests are equal exactly when their  *)
(* inputs are.  rand.Read is modelled as yielding a value no other call    *)
(* yields.  Names (file paths) are naturals, 0 being the empty string.     *)
(***************************************************************************)
EXTENDS Integers, Sequences, FiniteSets, TLC

(* ------------------------------ bounds -------------------------------- *)
MaxLeaves == 7        \* longest leaf sequence handed to CreateTree
MaxContent == 2       \* file contents are 1..MaxContent
SizeSlack == 1        \* n and m arguments range over 0..MaxLeaves+SizeSlack
MaxFiles == 3         \* most files the directory walk of gen finds
NumCPU == 1           \* runtime.NumCPU()

Contents == 1..MaxContent
Sizes == 0..(MaxLeaves + SizeSlack)

(* --------------------------- merkle package --------------------------- *)
Nil == [nil |-> TRUE]                 \* a nil pointer
NilNonce == 0                         \* a nil Nonce slice
SuppliedNonce == MaxLeaves + SizeSlack + 1   \* a nonce the caller passes to CreateLeaf
NoErr == "nil"
ErrRead == "read error"
ErrIndex == "given leaf index is impossible"
ErrSize == "given number of leaves is incorrect"
ErrInvalidIndex == "invalid leaf index"
ErrMismatch == "tree size and leaf index mismatch"
Panic == "nil pointer dereference"

\* x >> s on a uint64 whose value is below 2^31 (every value of this model)
Shr(x, s) == IF s >= 31 THEN 0 ELSE x \div (2 ^ s)

RECURSIVE Or(_, _)
\* a | b on naturals
Or(a, b) ==
    IF a = 0 THEN b
    ELSE IF b = 0 THEN a
    ELSE (IF a % 2 = 1 \/ b % 2 = 1 THEN 1 ELSE 0) + 2 * Or(a \div 2, b \div 2)

\* the usual midpoint split in place of the previous power of two
flp2Midpoint(x) == x \div 2

\* flp2 as the code computes it; only ever called with x >= 2
flp2(x) ==
    LET x0 == x - 1
        x1 == Or(x0, Shr(x0, 1))
        x2 == Or(x1, Shr(x1, 2))
        x3 == Or(x2, Shr(x2, 4))
        x4 == Or(x3, Shr(x3, 8))
        x5 == Or(x4, Shr(x4, 16))
        x6 == Or(x5, Shr(x5, 32))
    IN  x6 - Shr(x6, 1)

\* an io.Reader: its content, and whether reading it succeeds
Reader(data, ok) == [data |-> data, ok |-> ok]
\* the files a caller can hand over: any content, or one whose Read fails
Readers == {Reader(d, TRUE) : d \in Contents} \cup {Reader(0, FALSE)}

\* HashLeaf without the io.Copy: the content never reaches the hasher
HashLeafNoCopy(r, nonce) ==
    IF ~r.ok THEN [hash |-> Nil, err |-> ErrRead]
    ELSE [hash |-> <<0, nonce, 0>>, err |-> NoErr]

\* blake3 over 0x00 || nonce || content
HashLeaf(r, nonce) ==
    IF ~r.ok THEN [hash |-> Nil, err |-> ErrRead]
    ELSE [hash |-> <<0, nonce, r.data>>, err |-> NoErr]

\* blake3 over 0x01 || a || b
HashChildren(a, b) == <<1, a, b>>

\* blake3.Sum256 of the empty input
EmptyHash == <<2>>

Node(hash, name, left, right, nonce) ==
    [Hash |-> hash, Name |-> name, Left |-> left, Right |-> right, Nonce |-> nonce]

\* rnd is what rand.Read yields when the nonce argument is nil
CreateLeaf(name, r, nonce, rnd) ==
    LET nc == IF nonce = NilNonce THEN rnd ELSE nonce
        h == HashLeaf(r, nc)
    IN  IF h.err # NoErr THEN [node |-> Nil, err |-> h.err]
        ELSE [node |-> Node(h.hash, name, Nil, Nil, nc), err |-> NoErr]

RECURSIVE CreateTree(_)
CreateTree(ls) ==
    IF Len(ls) = 0 THEN Node(EmptyHash, 0, Nil, Nil, NilNonce)
    ELSE IF Len(ls) = 1 THEN ls[1]
    ELSE LET p2 == flp2(Len(ls))
             left == CreateTree(SubSeq(ls, 1, p2))
             right == CreateTree(SubSeq(ls, p2 + 1, Len(ls)))
         IN  Node(HashChildren(left.Hash, right.Hash), 0, left, right, NilNonce)

InclusionProof(m, n, nonce, path) ==
    [LeafIndex |-> m, TreeSize |-> n, Nonce |-> nonce, Proof |-> path]

RECURSIVE GetInclusionProof(_, _, _)
\* GetInclusionProof putting the sibling hash in front of the path (top to bottom)
GetInclusionProofPrepend(root, n, m) ==
    IF m >= n THEN [ip |-> Nil, err |-> ErrIndex]
    ELSE IF root = Nil THEN [ip |-> Nil, err |-> Panic]
    ELSE IF n = 1 THEN [ip |-> InclusionProof(m, n, root.Nonce, <<>>), err |-> NoErr]
    ELSE LET k == flp2(n) IN
         IF m < k
         THEN IF root.Right = Nil THEN [ip |-> Nil, err |-> ErrSize]
              ELSE LET r == GetInclusionProof(root.Left, k, m) IN
                   IF r.err # NoErr THEN [ip |-> Nil, err |-> r.err]
                   ELSE [ip |-> InclusionProof(m, n, r.ip.Nonce,
                                               <<root.Right.Hash>> \o r.ip.Proof),
                         err |-> NoErr]
         ELSE IF root.Left = Nil THEN [ip |-> Nil, err |-> ErrSize]
              ELSE LET r == GetInclusionProof(root.Right, n - k, m - k) IN
                   IF r.err # NoErr THEN [ip |-> Nil, err |-> r.err]
                   ELSE [ip |-> InclusionProof(m, n, r.ip.Nonce,
                                               <<root.Left.Hash>> \o r.ip.Proof),
                         err |-> NoErr]

GetInclusionProof(root, n, m) ==
    IF m >= n THEN [ip |-> Nil, err |-> ErrIndex]
    ELSE IF root = Nil THEN [ip |-> Nil, err |-> Panic]
    ELSE IF n = 1 THEN [ip |-> InclusionProof(m, n, root.Nonce, <<>>), err |-> NoErr]
    ELSE LET k == flp2(n) IN
         IF m < k
         THEN IF root.Right = Nil THEN [ip |-> Nil, err |-> ErrSize]
              ELSE LET r == GetInclusionProof(root.Left, k, m) IN
                   IF r.err # NoErr THEN [ip |-> Nil, err |-> r.err]
                   ELSE [ip |-> InclusionProof(m, n, r.ip.Nonce,
                                               Append(r.ip.Proof, root.Right.Hash)),
                         err |-> NoErr]
         ELSE IF root.Left = Nil THEN [ip |-> Nil, err |-> ErrSize]
              ELSE LET r == GetInclusionProof(root.Right, n - k, m - k) IN
                   IF r.err # NoErr THEN [ip |-> Nil, err |-> r.err]
                   ELSE [ip |-> InclusionProof(m, n, r.ip.Nonce,
                                               Append(r.ip.Proof, root.Left.Hash)),
                         err |-> NoErr]

RECURSIVE GetLeaf(_, _, _)
\* GetLeaf testing n == 1 before m >= n
GetLeafSingleFirst(root, n, m) ==
    IF n = 1 THEN [node |-> root, err |-> NoErr]
    ELSE IF m >= n THEN [node |-> Nil, err |-> ErrIndex]
    ELSE IF root = Nil THEN [node |-> Nil, err |-> Panic]
    ELSE LET k == flp2(n) IN
         IF m < k
         THEN IF root.Right = Nil THEN [node |-> Nil, err |-> ErrSize]
              ELSE GetLeaf(root.Left, k, m)
         ELSE IF root.Left = Nil THEN [node |-> Nil, err |-> ErrSize]
              ELSE GetLeaf(root.Right, n - k, m - k)

\* GetLeaf descending to the right with m instead of m-k
GetLeafNoRebase(root, n, m) ==
    IF m >= n THEN [node |-> Nil, err |-> ErrIndex]
    ELSE IF n = 1 THEN [node |-> root, err |-> NoErr]
    ELSE IF root = Nil THEN [node |-> Nil, err |-> Panic]
    ELSE LET k == flp2(n) IN
         IF m < k
         THEN IF root.Right = Nil THEN [node |-> Nil, err |-> ErrSize]
              ELSE GetLeaf(root.Left, k, m)
         ELSE IF root.Left = Nil THEN [node |-> Nil, err |-> ErrSize]
              ELSE GetLeaf(root.Right, n - k, m)

GetLeaf(root, n, m) ==
    IF m >= n THEN [node |-> Nil, err |-> ErrIndex]
    ELSE IF n = 1 THEN [node |-> root, err |-> NoErr]
    ELSE IF root = Nil THEN [node |-> Nil, err |-> Panic]
    ELSE LET k == flp2(n) IN
         IF m < k
         THEN IF root.Right = Nil THEN [node |-> Nil, err |-> ErrSize]
              ELSE GetLeaf(root.Left, k, m)
         ELSE IF root.Left = Nil THEN [node |-> Nil, err |-> ErrSize]
              ELSE GetLeaf(root.Right, n - k, m - k)

\* the inner loop as an if: one shift at most
ShiftLoopOnce(fn, sn) ==
    IF fn % 2 = 0 /\ fn # 0 THEN [fn |-> Shr(fn, 1), sn |-> Shr(sn, 1)]
    ELSE [fn |-> fn, sn |-> sn]

\* the inner loop left out
ShiftLoopSkipped(fn, sn) == [fn |-> fn, sn |-> sn]

RECURSIVE ShiftLoop(_, _)
\* for fn&0x1 == 0 && fn != 0 { fn >>= 1; sn >>= 1 }
ShiftLoop(fn, sn) ==
    IF fn % 2 = 0 /\ fn # 0 THEN ShiftLoop(Shr(fn, 1), Shr(sn, 1))
    ELSE [fn |-> fn, sn |-> sn]

RECURSIVE FoldPath(_, _, _, _, _)
\* the else branch writing p before r, as the if branch does
FoldPathSameOrder(path, i, fn, sn, r) ==
    IF i > Len(path)
    THEN IF sn # 0 THEN [hash |-> Nil, err |-> ErrMismatch]
         ELSE [hash |-> r, err |-> NoErr]
    ELSE IF sn = 0 THEN [hash |-> Nil, err |-> ErrMismatch]
    ELSE IF fn % 2 = 1 \/ fn = sn
         THEN LET s == ShiftLoop(fn, sn) IN
              FoldPath(path, i + 1, Shr(s.fn, 1), Shr(s.sn, 1), HashChildren(path[i], r))
         ELSE FoldPath(path, i + 1, Shr(fn, 1), Shr(sn, 1), HashChildren(path[i], r))

\* the range loop without the check of sn after the last sibling
FoldPathNoFinalCheck(path, i, fn, sn, r) ==
    IF i > Len(path)
    THEN [hash |-> r, err |-> NoErr]
    ELSE IF sn = 0 THEN [hash |-> Nil, err |-> ErrMismatch]
    ELSE IF fn % 2 = 1 \/ fn = sn
         THEN LET s == ShiftLoop(fn, sn) IN
              FoldPath(path, i + 1, Shr(s.fn, 1), Shr(s.sn, 1), HashChildren(path[i], r))
         ELSE FoldPath(path, i + 1, Shr(fn, 1), Shr(sn, 1), HashChildren(r, path[i]))

\* the range loop over proof.Proof from element i on, and the final check
FoldPath(path, i, fn, sn, r) ==
    IF i > Len(path)
    THEN IF sn # 0 THEN [hash |-> Nil, err |-> ErrMismatch]
         ELSE [hash |-> r, err |-> NoErr]
    ELSE IF sn = 0 THEN [hash |-> Nil, err |-> ErrMismatch]
    ELSE IF fn % 2 = 1 \/ fn = sn
         THEN LET s == ShiftLoop(fn, sn) IN
              FoldPath(path, i + 1, Shr(s.fn, 1), Shr(s.sn, 1), HashChildren(path[i], r))
         ELSE FoldPath(path, i + 1, Shr(fn, 1), Shr(sn, 1), HashChildren(r, path[i]))

RECURSIVE LoopStates(_, _, _, _)
\* what the range loop holds at the top of each iteration from element i on:
\* the index of the sibling about to be read, fn and sn. The last entry is the
\* state in which the function returns: at a sibling with sn == 0, or past the
\* last sibling.
LoopStates(path, i, fn, sn) ==
    LET here == <<[i |-> i, fn |-> fn, sn |-> sn]>> IN
    IF i > Len(path) \/ sn = 0 THEN here
    ELSE IF fn % 2 = 1 \/ fn = sn
         THEN LET s == ShiftLoop(fn, sn) IN
              here \o LoopStates(path, i + 1, Shr(s.fn, 1), Shr(s.sn, 1))
         ELSE here \o LoopStates(path, i + 1, Shr(fn, 1), Shr(sn, 1))

CalcInclusionProof(proof, reader) ==
    LET lh == HashLeaf(reader, proof.Nonce) IN
    IF lh.err # NoErr THEN [hash |-> Nil, err |-> lh.err]
    ELSE IF proof.LeafIndex >= proof.TreeSize THEN [hash |-> Nil, err |-> ErrInvalidIndex]
    ELSE FoldPath(proof.Proof, 1, proof.LeafIndex, proof.TreeSize - 1, lh.hash)

(* ------------------------- state of Spec ------------------------------ *)
VARIABLES
    fileData,   \* fileData[i]: content of the file behind leaf i
    leafNodes,  \* the leaf nodes, in the order handed to CreateTree
    treeRoot,   \* the tree built by CreateTree, Nil before
    last,       \* the last GetInclusionProof / GetLeaf call and its result
    proofFile,  \* the inclusion proof in the verifier's hands, Nil if none
    tamper,     \* what was altered in the proof since it was generated
    calc        \* the last CalcInclusionProof call and its result

mvars == <<fileData, leafNodes, treeRoot, last, proofFile, tamper, calc>>

\* the state of gen (SpecGen)
VARIABLES
    filePaths,  \* the paths found by fs.WalkDir, in walk order
    fault,      \* fault[p]: "none", or whether os.Open or CreateLeaf fails on p
    sent,       \* how many of filePaths the assigning goroutine has sent
    pathClosed, \* close(pathCh) has run
    wstate,     \* wstate[w]: where worker w stands, and what it holds
    wg,         \* the WaitGroup counter
    sig,        \* the goroutine that waits on wg and then sends nil on errCh
    leaves,     \* the coordinator's leaves slice
    files,      \* the coordinator's files map
    cpc,        \* where gen's own goroutine stands
    genErr,     \* the error gen returned, Nil for nil
    merkTree,   \* the tree struct built after the select loop, Nil before
    written     \* writeTree has produced the output file

gvars == <<filePaths, fault, sent, pathClosed, wstate, wg, sig, leaves, files,
           cpc, genErr, merkTree, written>>

vars == <<mvars, gvars>>

NoCall == [op |-> "none", n |-> 0, m |-> 0, ip |-> Nil, node |-> Nil, err |-> NoErr]
NoCalc == [done |-> FALSE, reader |-> Nil, hash |-> Nil, err |-> NoErr]

\* leaves created one by one with CreateLeaf from readable files; either every
\* nonce is generated (nil argument) or the caller supplies the same one each time
InitLeaves(data, supplied) ==
    [i \in 1..Len(data) |->
        CreateLeaf(i, Reader(data[i], TRUE),
                   IF supplied THEN SuppliedNonce ELSE NilNonce, i).node]

\* the content of the file at path p
FileContent(p) == 1 + (p % MaxContent)

\* the directories tried: n files whose contents cycle through Contents, or
\* n files of one and the same content
FileDatas(n) ==
    {[i \in 1..n |-> FileContent(i)]} \cup {[i \in 1..n |-> c] : c \in Contents}

MInit ==
    /\ \E n \in 0..MaxLeaves : \E supplied \in BOOLEAN :
          /\ fileData \in FileDatas(n)
          /\ leafNodes = InitLeaves(fileData, supplied)
    /\ treeRoot = Nil
    /\ last = NoCall
    /\ proofFile = Nil
    /\ tamper = "none"
    /\ calc = NoCalc

DoCreateTree ==
    /\ treeRoot = Nil
    /\ last = NoCall
    /\ treeRoot' = CreateTree(leafNodes)
    /\ UNCHANGED <<fileData, leafNodes, last, proofFile, tamper, calc>>
    /\ UNCHANGED gvars

DoGetInclusionProof(n, m) ==
    LET r == GetInclusionProof(treeRoot, n, m) IN
    /\ last = NoCall
    /\ last' = [op |-> "GetInclusionProof", n |-> n, m |-> m,
                ip |-> r.ip, node |-> Nil, err |-> r.err]
    /\ proofFile' = r.ip
    /\ tamper' = "none"
    /\ calc' = NoCalc
    /\ UNCHANGED <<fileData, leafNodes, treeRoot>>
    /\ UNCHANGED gvars

DoGetLeaf(n, m) ==
    LET r == GetLeaf(treeRoot, n, m) IN
    /\ last = NoCall
    /\ last' = [op |-> "GetLeaf", n |-> n, m |-> m,
                ip |-> Nil, node |-> r.node, err |-> r.err]
    /\ proofFile' = Nil
    /\ tamper' = "none"
    /\ calc' = NoCalc
    /\ UNCHANGED <<fileData, leafNodes, treeRoot>>
    /\ UNCHANGED gvars

\* the digests an altered proof can carry in place of a sibling hash
TamperHashes ==
    {EmptyHash} \cup {leafNodes[i].Hash : i \in 1..Len(leafNodes)}
                \cup (IF treeRoot = Nil THEN {} ELSE {treeRoot.Hash})

\* the proof file is edited: another leaf_index and/or tree_size
TamperIndex(m, n) ==
    /\ proofFile # Nil
    /\ tamper = "none"
    /\ ~calc.done
    /\ <<m, n>> # <<proofFile.LeafIndex, proofFile.TreeSize>>
    /\ proofFile' = [proofFile EXCEPT !.LeafIndex = m, !.TreeSize = n]
    /\ tamper' = "index"
    /\ calc' = NoCalc
    /\ UNCHANGED <<fileData, leafNodes, treeRoot, last>>
    /\ UNCHANGED gvars

\* the proof file is edited: sibling hash i is replaced by h
TamperSibling(i, h) ==
    /\ proofFile # Nil
    /\ tamper = "none"
    /\ ~calc.done
    /\ i \in 1..Len(proofFile.Proof)
    /\ h # proofFile.Proof[i]
    /\ proofFile' = [proofFile EXCEPT !.Proof[i] = h]
    /\ tamper' = "sibling"
    /\ calc' = NoCalc
    /\ UNCHANGED <<fileData, leafNodes, treeRoot, last>>
    /\ UNCHANGED gvars

\* the proof file is edited: only the first k sibling hashes are kept
TamperTruncate(k) ==
    /\ proofFile # Nil
    /\ tamper = "none"
    /\ ~calc.done
    /\ k < Len(proofFile.Proof)
    /\ proofFile' = [proofFile EXCEPT !.Proof = SubSeq(proofFile.Proof, 1, k)]
    /\ tamper' = "length"
    /\ calc' = NoCalc
    /\ UNCHANGED <<fileData, leafNodes, treeRoot, last>>
    /\ UNCHANGED gvars

\* the proof file is edited: one more sibling hash h is added at the end
TamperExtend(h) ==
    /\ proofFile # Nil
    /\ tamper = "none"
    /\ ~calc.done
    /\ proofFile' = [proofFile EXCEPT !.Proof = Append(proofFile.Proof, h)]
    /\ tamper' = "length"
    /\ calc' = NoCalc
    /\ UNCHANGED <<fileData, leafNodes, treeRoot, last>>
    /\ UNCHANGED gvars

\* verifyInclusion: the proof file and a file are given to CalcInclusionProof
DoCalcInclusionProof(reader) ==
    LET r == CalcInclusionProof(proofFile, reader) IN
    /\ proofFile # Nil
    /\ ~calc.done
    /\ calc' = [done |-> TRUE, reader |-> reader, hash |-> r.hash, err |-> r.err]
    /\ UNCHANGED <<fileData, leafNodes, treeRoot, last, proofFile, tamper>>
    /\ UNCHANGED gvars

(* ------------------------------ gen ----------------------------------- *)
\* the goroutines started by the loop up to runtime.NumCPU()*2
Workers == 1..(NumCPU * 2)

IdleWorker == [pc |-> "range", path |-> 0, leaf |-> Nil, err |-> Nil]

\* the worker pool of gen stands still while the library is exercised
GIdle ==
    /\ filePaths = <<>>
    /\ fault = <<>>
    /\ sent = 0
    /\ pathClosed = FALSE
    /\ wstate = [w \in Workers |-> IdleWorker]
    /\ wg = 0
    /\ sig = "wait"
    /\ leaves = <<>>
    /\ files = <<>>
    /\ cpc = "idle"
    /\ genErr = Nil
    /\ merkTree = Nil
    /\ written = FALSE

\* gen after the walk, once the workers and the two helper goroutines are started
GInit ==
    /\ \E n \in 0..MaxFiles :
          /\ filePaths = [i \in 1..n |-> i]
          /\ fault \in [1..n -> {"none", "open", "hash"}]
    /\ sent = 0
    /\ pathClosed = FALSE
    /\ wstate = [w \in Workers |-> IdleWorker]
    /\ wg = Cardinality(Workers)
    /\ sig = "wait"
    /\ leaves = <<>>
    /\ files = <<>>
    /\ cpc = "select"
    /\ genErr = Nil
    /\ merkTree = Nil
    /\ written = FALSE

\* pathCh <- path meets a worker's range over pathCh
AssignPath(w) ==
    /\ sent < Len(filePaths)
    /\ wstate[w].pc = "range"
    /\ sent' = sent + 1
    /\ wstate' = [wstate EXCEPT ![w] = [@ EXCEPT !.pc = "work", !.path = filePaths[sent + 1]]]
    /\ UNCHANGED <<filePaths, fault, pathClosed, wg, sig, leaves, files, cpc, genErr,
                   merkTree, written>>
    /\ UNCHANGED mvars

ClosePathCh ==
    /\ sent = Len(filePaths)
    /\ ~pathClosed
    /\ pathClosed' = TRUE
    /\ UNCHANGED <<filePaths, fault, sent, wstate, wg, sig, leaves, files, cpc, genErr,
                   merkTree, written>>
    /\ UNCHANGED mvars

\* the worker returning without wg.Done
WorkerExitNoDone(w) ==
    /\ wstate[w].pc = "range"
    /\ pathClosed
    /\ wstate' = [wstate EXCEPT ![w] = [@ EXCEPT !.pc = "done"]]
    /\ UNCHANGED <<filePaths, fault, sent, pathClosed, wg, sig, leaves, files, cpc, genErr,
                   merkTree, written>>
    /\ UNCHANGED mvars

\* the range loop ends on the closed channel; the deferred wg.Done runs
WorkerExit(w) ==
    /\ wstate[w].pc = "range"
    /\ pathClosed
    /\ wstate' = [wstate EXCEPT ![w] = [@ EXCEPT !.pc = "done"]]
    /\ wg' = wg - 1
    /\ UNCHANGED <<filePaths, fault, sent, pathClosed, sig, leaves, files, cpc, genErr,
                   merkTree, written>>
    /\ UNCHANGED mvars

\* os.Open and merkle.CreateLeaf on the received path
WorkerHash(w) ==
    LET p == wstate[w].path
        r == CreateLeaf(p, Reader(FileContent(p), fault[p] # "hash"), NilNonce, p)
    IN
    /\ wstate[w].pc = "work"
    /\ wstate' = [wstate EXCEPT ![w] =
          IF fault[p] = "open"
          THEN [@ EXCEPT !.pc = "sendErr", !.err = [op |-> "open", path |-> p]]
          ELSE IF r.err # NoErr
          THEN [@ EXCEPT !.pc = "sendErr", !.err = [op |-> r.err, path |-> p]]
          ELSE [@ EXCEPT !.pc = "sendLeaf", !.leaf = r.node]]
    /\ UNCHANGED <<filePaths, fault, sent, pathClosed, wg, sig, leaves, files, cpc, genErr,
                   merkTree, written>>
    /\ UNCHANGED mvars

\* the index taken after the append
CoordRecvLeafIndexAfter(w) ==
    /\ cpc = "select"
    /\ wstate[w].pc = "sendLeaf"
    /\ files' = [nm \in DOMAIN files \cup {wstate[w].leaf.Name} |->
                    IF nm = wstate[w].leaf.Name THEN Len(leaves) + 1 ELSE files[nm]]
    /\ leaves' = Append(leaves, wstate[w].leaf)
    /\ wstate' = [wstate EXCEPT ![w] = [@ EXCEPT !.pc = "range"]]
    /\ UNCHANGED <<filePaths, fault, sent, pathClosed, wg, sig, cpc, genErr, merkTree,
                   written>>
    /\ UNCHANGED mvars

\* case leaf := <-leafCh, meeting worker w's leafCh <- leaf
CoordRecvLeaf(w) ==
    /\ cpc = "select"
    /\ wstate[w].pc = "sendLeaf"
    /\ files' = [nm \in DOMAIN files \cup {wstate[w].leaf.Name} |->
                    IF nm = wstate[w].leaf.Name THEN Len(leaves) ELSE files[nm]]
    /\ leaves' = Append(leaves, wstate[w].leaf)
    /\ wstate' = [wstate EXCEPT ![w] = [@ EXCEPT !.pc = "range"]]
    /\ UNCHANGED <<filePaths, fault, sent, pathClosed, wg, sig, cpc, genErr, merkTree,
                   written>>
    /\ UNCHANGED mvars

\* the coordinator dropping a worker's error and staying in the loop
CoordRecvErrContinue(w) ==
    /\ cpc = "select"
    /\ wstate[w].pc = "sendErr"
    /\ wstate' = [wstate EXCEPT ![w] = [@ EXCEPT !.pc = "done"]]
    /\ wg' = wg - 1
    /\ UNCHANGED <<filePaths, fault, sent, pathClosed, sig, leaves, files, cpc, genErr,
                   merkTree, written>>
    /\ UNCHANGED mvars

\* case err := <-errCh with err != nil, meeting worker w's errCh <- err;
\* gen returns err, the worker returns and its deferred wg.Done runs
CoordRecvErr(w) ==
    /\ cpc = "select"
    /\ wstate[w].pc = "sendErr"
    /\ cpc' = "returned"
    /\ genErr' = wstate[w].err
    /\ wstate' = [wstate EXCEPT ![w] = [@ EXCEPT !.pc = "done"]]
    /\ wg' = wg - 1
    /\ UNCHANGED <<filePaths, fault, sent, pathClosed, sig, leaves, files, merkTree,
                   written>>
    /\ UNCHANGED mvars

\* wg.Wait returns
SignalWait ==
    /\ sig = "wait"
    /\ wg = 0
    /\ sig' = "send"
    /\ UNCHANGED <<filePaths, fault, sent, pathClosed, wstate, wg, leaves, files, cpc,
                   genErr, merkTree, written>>
    /\ UNCHANGED mvars

\* case err := <-errCh with err == nil: break outer
CoordRecvNil ==
    /\ cpc = "select"
    /\ sig = "send"
    /\ sig' = "done"
    /\ cpc' = "build"
    /\ UNCHANGED <<filePaths, fault, sent, pathClosed, wstate, wg, leaves, files, genErr,
                   merkTree, written>>
    /\ UNCHANGED mvars

\* filepath.Abs, then the tree struct with CreateTree(leaves)
CoordBuild(absOk) ==
    /\ cpc = "build"
    /\ IF absOk
       THEN /\ merkTree' = [Files |-> files, Root |-> CreateTree(leaves)]
            /\ cpc' = "write"
            /\ UNCHANGED genErr
       ELSE /\ genErr' = [op |-> "abs", path |-> 0]
            /\ cpc' = "returned"
            /\ UNCHANGED merkTree
    /\ UNCHANGED <<filePaths, fault, sent, pathClosed, wstate, wg, sig, leaves, files,
                   written>>
    /\ UNCHANGED mvars

\* return writeTree(&merkTree, output)
CoordWrite(writeOk) ==
    /\ cpc = "write"
    /\ written' = writeOk
    /\ genErr' = IF writeOk THEN Nil ELSE [op |-> "write", path |-> 0]
    /\ cpc' = "returned"
    /\ UNCHANGED <<filePaths, fault, sent, pathClosed, wstate, wg, sig, leaves, files,
                   merkTree>>
    /\ UNCHANGED mvars

\* the library is idle while gen runs
MIdle ==
    /\ fileData = <<>>
    /\ leafNodes = <<>>
    /\ treeRoot = Nil
    /\ last = NoCall
    /\ proofFile = Nil
    /\ tamper = "none"
    /\ calc = NoCalc

Init == MInit /\ GIdle

Next ==
    \/ DoCreateTree
    \/ \E n \in Sizes, m \in Sizes : DoGetInclusionProof(n, m)
    \/ \E n \in Sizes, m \in Sizes : DoGetLeaf(n, m)
    \/ \E m \in Sizes, n \in Sizes : TamperIndex(m, n)
    \/ \E i \in 1..MaxLeaves, h \in TamperHashes : TamperSibling(i, h)
    \/ \E k \in 0..MaxLeaves : TamperTruncate(k)
    \/ \E h \in TamperHashes : TamperExtend(h)
    \/ \E r \in Readers : DoCalcInclusionProof(r)

Spec == Init /\ [][Next]_vars

InitGen == GInit /\ MIdle

NextGen ==
    \/ \E w \in Workers : AssignPath(w)
    \/ ClosePathCh
    \/ \E w \in Workers : WorkerExit(w)
    \/ \E w \in Workers : WorkerHash(w)
    \/ \E w \in Workers : CoordRecvLeaf(w)
    \/ \E w \in Workers : CoordRecvErr(w)
    \/ SignalWait
    \/ CoordRecvNil
    \/ \E absOk \in BOOLEAN : CoordBuild(absOk)
    \/ \E writeOk \in BOOLEAN : CoordWrite(writeOk)

SpecGen == InitGen /\ [][NextGen]_vars

\* gen under the Go scheduler: as long as a goroutine can run, or a send and a
\* receive on one channel can meet, some step is taken. Nothing is assumed
\* about which goroutine runs or which ready case a select picks.
SpecGenFair == InitGen /\ [][NextGen]_vars /\ WF_vars(NextGen)

(* -------------------- RFC 9162 reference definitions ------------------ *)
IsPow2(k) == \E j \in 0..k : 2 ^ j = k

\* the largest power of two strictly less than n (n >= 2)
RefK(n) == CHOOSE k \in 1..n : IsPow2(k) /\ k < n /\ n <= 2 * k

RECURSIVE RefTree(_)
\* RFC 9162 2.1.1 over a list of leaf nodes
RefTree(ls) ==
    IF Len(ls) = 0 THEN Node(EmptyHash, 0, Nil, Nil, NilNonce)
    ELSE IF Len(ls) = 1 THEN ls[1]
    ELSE LET k == RefK(Len(ls))
             l == RefTree(SubSeq(ls, 1, k))
             r == RefTree(SubSeq(ls, k + 1, Len(ls)))
         IN  Node(<<1, l.Hash, r.Hash>>, 0, l, r, NilNonce)

RECURSIVE RefPath(_, _)
\* RFC 9162 2.1.3.1: PATH(m, D_n), bottom to top, m zero-based
RefPath(m, ls) ==
    IF Len(ls) <= 1 THEN <<>>
    ELSE LET k == RefK(Len(ls)) IN
         IF m < k
         THEN Append(RefPath(m, SubSeq(ls, 1, k)), RefTree(SubSeq(ls, k + 1, Len(ls))).Hash)
         ELSE Append(RefPath(m - k, SubSeq(ls, k + 1, Len(ls))), RefTree(SubSeq(ls, 1, k)).Hash)

RECURSIVE RefSibling(_, _)
\* the hash of the subtree that shares its parent with leaf m (Len(ls) >= 2)
RefSibling(m, ls) ==
    LET n == Len(ls)
        k == RefK(n)
    IN  IF m < k
        THEN IF k = 1 THEN RefTree(SubSeq(ls, 2, n)).Hash
             ELSE RefSibling(m, SubSeq(ls, 1, k))
        ELSE IF n - k = 1 THEN RefTree(SubSeq(ls, 1, k)).Hash
             ELSE RefSibling(m - k, SubSeq(ls, k + 1, n))

RECURSIVE RefDirs(_, _)
\* on which side the sibling sits at each level above leaf m of an n-leaf tree
RefDirs(m, n) ==
    IF n <= 1 THEN <<>>
    ELSE LET k == RefK(n) IN
         IF m < k THEN Append(RefDirs(m, k), "R")
         ELSE Append(RefDirs(m - k, n - k), "L")

\* the last call asked the built tree for a proof with the true leaf count
ValidProofCall ==
    /\ last.op = "GetInclusionProof"
    /\ treeRoot # Nil
    /\ last.n = Len(leafNodes)
    /\ last.m < last.n

\* the file behind the proven leaf, unchanged
OriginalFile == Reader(fileData[last.m + 1], TRUE)

DistinctLeaves ==
    \A i, j \in 1..Len(leafNodes) : i # j => leafNodes[i].Hash # leafNodes[j].Hash

(* ------------------------------ claims -------------------------------- *)

\* C1: round trip. The proof GetInclusionProof returns for (n, m), n the leaf
\* count and m < n, folded by CalcInclusionProof over the original bytes of
\* leaf m, gives without error the hash of CreateTree(leaves).
C1_RoundTrip ==
    ValidProofCall =>
        /\ last.err = NoErr
        /\ (tamper = "none" /\ calc.done /\ calc.reader = OriginalFile) =>
              /\ calc.err = NoErr
              /\ calc.hash = CreateTree(leafNodes).Hash
              /\ calc.hash = treeRoot.Hash

C1_Witness ==
    /\ ValidProofCall /\ last.n = 5 /\ last.m = 4
    /\ tamper = "none" /\ calc.done /\ calc.reader = OriginalFile
    /\ calc.err = NoErr /\ calc.hash = treeRoot.Hash

\* C2: CreateTree is the RFC 9162 construction: empty-tree node for no leaves,
\* the leaf itself for one, and for n >= 2 a node over CreateTree(leaves[0,k))
\* and CreateTree(leaves[k,n)), k the largest power of two below n, hashed as
\* H(0x01 || left || right).
C2_CreateTreeIsReference ==
    treeRoot # Nil =>
        /\ treeRoot = RefTree(leafNodes)
        /\ Len(leafNodes) = 0 =>
              treeRoot.Hash = EmptyHash /\ treeRoot.Left = Nil /\ treeRoot.Right = Nil
        /\ Len(leafNodes) = 1 => treeRoot = leafNodes[1]
        /\ Len(leafNodes) >= 2 =>
              LET k == flp2(Len(leafNodes)) IN
              /\ IsPow2(k) /\ k < Len(leafNodes) /\ Len(leafNodes) <= 2 * k
              /\ treeRoot.Left = CreateTree(SubSeq(leafNodes, 1, k))
              /\ treeRoot.Right = CreateTree(SubSeq(leafNodes, k + 1, Len(leafNodes)))
              /\ treeRoot.Hash = <<1, treeRoot.Left.Hash, treeRoot.Right.Hash>>

C2_Witness ==
    /\ treeRoot # Nil /\ Len(leafNodes) = 5
    /\ treeRoot.Right = leafNodes[5]
    /\ treeRoot.Left.Left.Right = leafNodes[2]
    /\ treeRoot.Left.Right.Left = leafNodes[3]

\* C3: with n different from the real leaf count (and m < n) GetInclusionProof
\* and GetLeaf return the tree-size error, never a proof or a leaf.
C3_SizeMismatchReported ==
    ( /\ last.op \in {"GetInclusionProof", "GetLeaf"}
      /\ treeRoot # Nil
      /\ last.n # Len(leafNodes)
      /\ last.m < last.n ) => last.err = ErrSize

\* C4 as stated: after leaf_index and/or tree_size of a valid proof are changed
\* (path, nonce, file unchanged) CalcInclusionProof fails or returns a root
\* other than the true one.
C4_IndexTamperDetected ==
    ( /\ ValidProofCall /\ tamper = "index"
      /\ calc.done /\ calc.reader = OriginalFile ) =>
        \/ calc.err \in {ErrInvalidIndex, ErrMismatch}
        \/ calc.err = NoErr /\ calc.hash # treeRoot.Hash

\* C4 amended: with pairwise distinct leaf hashes, CalcInclusionProof returns
\* the true root for a changed (leaf_index, tree_size) exactly when the new pair
\* has the audit-path shape of the original one (same length, sibling on the
\* same side at every level); otherwise it fails with one of the two errors or
\* returns another root.
C4_IndexTamperDetectedUnlessSameShape ==
    ( /\ ValidProofCall /\ tamper = "index" /\ DistinctLeaves
      /\ calc.done /\ calc.reader = OriginalFile ) =>
        LET m2 == proofFile.LeafIndex
            n2 == proofFile.TreeSize
            same == m2 < n2 /\ RefDirs(m2, n2) = RefDirs(last.m, last.n)
        IN  /\ same => calc.err = NoErr /\ calc.hash = treeRoot.Hash
            /\ ~same => \/ calc.err \in {ErrInvalidIndex, ErrMismatch}
                        \/ calc.err = NoErr /\ calc.hash # treeRoot.Hash

\* a changed pair of another shape and the same length: a different root
C4_Witness ==
    /\ ValidProofCall /\ tamper = "index" /\ DistinctLeaves
    /\ calc.done /\ calc.reader = OriginalFile
    /\ last.n = 5 /\ last.m = 2
    /\ proofFile.TreeSize = 5 /\ proofFile.LeafIndex = 1
    /\ calc.err = NoErr /\ calc.hash # treeRoot.Hash

\* C6: m >= n is refused by GetInclusionProof and GetLeaf with the index
\* error and no result, for every n (0 included) and whatever the tree is.
C6_IndexOutOfRange ==
    (last.op \in {"GetInclusionProof", "GetLeaf"} /\ last.m >= last.n) =>
        last.err = ErrIndex /\ last.ip = Nil /\ last.node = Nil

C6_Witness ==
    /\ last.op = "GetLeaf" /\ treeRoot # Nil /\ Len(leafNodes) = 3
    /\ last.n = 1 /\ last.m = 1 /\ last.err = ErrIndex

\* C7: for the true leaf count n and m < n the proof carries LeafIndex m,
\* TreeSize n, the nonce of leaf m and the reference audit path, bottom to
\* top: as long as leaf m is deep, the sibling subtree of leaf m first and the
\* root's other child last.
C7_ProofIsAuditPath ==
    ValidProofCall =>
        LET n == last.n
            m == last.m
            path == last.ip.Proof
        IN  /\ last.err = NoErr
            /\ last.ip.LeafIndex = m /\ last.ip.TreeSize = n
            /\ last.ip.Nonce = leafNodes[m + 1].Nonce
            /\ path = RefPath(m, leafNodes)
            /\ Len(path) = Len(RefDirs(m, n))
            /\ n = 1 => path = <<>>
            /\ n >= 2 =>
                  /\ path[Len(path)] = IF m < RefK(n) THEN treeRoot.Right.Hash
                                       ELSE treeRoot.Left.Hash
                  /\ path[1] = RefSibling(m, leafNodes)
            /\ (n = 3 /\ m = 2) => path = <<treeRoot.Left.Hash>>
            /\ (n = 3 /\ m = 0) => Len(path) = 2

C7_Witness ==
    /\ ValidProofCall /\ last.n = 5 /\ last.m = 4
    /\ last.err = NoErr /\ last.ip.Proof = <<treeRoot.Left.Hash>>
    /\ last.ip.Nonce = leafNodes[5].Nonce

\* C8: a replaced file content, or one replaced sibling hash, is not an error:
\* CalcInclusionProof returns a candidate root, and it is not the true root.
C8_TamperGivesOtherRoot ==
    ( /\ ValidProofCall /\ calc.done /\ calc.reader.ok
      /\ \/ tamper = "none" /\ calc.reader # OriginalFile
         \/ tamper = "sibling" /\ calc.reader = OriginalFile ) =>
        calc.err = NoErr /\ calc.hash # treeRoot.Hash

C8_Witness ==
    /\ ValidProofCall /\ last.n = 5 /\ last.m = 1
    /\ tamper = "sibling" /\ proofFile.Proof[2] # last.ip.Proof[2]
    /\ calc.done /\ calc.reader = OriginalFile
    /\ calc.err = NoErr /\ calc.hash # treeRoot.Hash

\* a worker whose os.Open or CreateLeaf failed
Failed(w) == wstate[w].err # Nil

\* C5 as stated: the sequence handed to CreateTree is in directory-walk order,
\* leaves[i].Name == filePaths[i] for every i.
C5_LeavesInWalkOrder ==
    merkTree # Nil =>
        /\ Len(leaves) = Len(filePaths)
        /\ \A i \in 1..Len(leaves) : leaves[i].Name = filePaths[i]

\* C9: once a worker failed, gen never gets past the select loop: no nil is
\* received, no tree is built or written; the one error the coordinator
\* receives is the error gen returns.
C9_FailureAborts ==
    /\ (\E w \in Workers : Failed(w)) =>
          /\ cpc \in {"select", "returned"}
          /\ sig # "done"
          /\ merkTree = Nil /\ ~written
          /\ cpc = "returned" => genErr \in {wstate[w].err : w \in Workers} \ {Nil}
    /\ \A w \in Workers : (Failed(w) /\ wstate[w].pc = "done") =>
          cpc = "returned" /\ genErr = wstate[w].err

C9_Witness ==
    /\ cpc = "returned" /\ genErr = [op |-> ErrRead, path |-> 3]
    /\ Len(leaves) = 1
    /\ \E w \in Workers : wstate[w].pc = "sendErr" /\ wstate[w].err # genErr

\* C10: when gen returns nil, leaves holds one leaf per enumerated path, Files
\* has as many entries as there are leaves, and Files[name] is the index of the
\* leaf of that name, which GetLeaf finds there in the tree.
C10_NoLeafLostOrDuplicated ==
    (cpc = "returned" /\ genErr = Nil) =>
        /\ written /\ merkTree # Nil
        /\ Len(leaves) = Len(filePaths)
        /\ \A i \in 1..Len(filePaths) :
              Cardinality({j \in 1..Len(leaves) : leaves[j].Name = filePaths[i]}) = 1
        /\ Cardinality(DOMAIN merkTree.Files) = Len(leaves)
        /\ \A j \in 1..Len(leaves) :
              /\ leaves[j].Name \in DOMAIN merkTree.Files
              /\ merkTree.Files[leaves[j].Name] = j - 1
        /\ \A nm \in DOMAIN merkTree.Files :
              LET r == GetLeaf(merkTree.Root, Cardinality(DOMAIN merkTree.Files),
                               merkTree.Files[nm])
              IN  r.err = NoErr /\ r.node.Name = nm

C10_Witness ==
    /\ cpc = "returned" /\ genErr = Nil /\ written
    /\ Len(leaves) = 3
    /\ leaves[1].Name = 2 /\ leaves[2].Name = 3 /\ leaves[3].Name = 1

\* the last call asked the built tree for a leaf with the true leaf count
ValidLeafCall ==
    /\ last.op = "GetLeaf"
    /\ treeRoot # Nil
    /\ last.n = Len(leafNodes)
    /\ last.m < last.n

\* C11: for the true leaf count n >= 1 and every m < n GetLeaf returns, without
\* error, the m-th node handed to CreateTree (name, nonce and hash), and it is
\* the leaf GetInclusionProof descends to: the proof of (n, m) carries its
\* nonce and folds its hash up to the root.
C11_GetLeafReturnsLeaf ==
    ValidLeafCall =>
        LET leaf == leafNodes[last.m + 1]
            p == GetInclusionProof(treeRoot, last.n, last.m)
        IN  /\ last.err = NoErr
            /\ last.node = leaf
            /\ last.node.Name = leaf.Name /\ last.node.Nonce = leaf.Nonce
            /\ last.node.Hash = leaf.Hash
            /\ last.node.Left = Nil /\ last.node.Right = Nil
            /\ p.err = NoErr /\ p.ip.Nonce = last.node.Nonce
            /\ FoldPath(p.ip.Proof, 1, last.m, last.n - 1, last.node.Hash)
                   = [hash |-> treeRoot.Hash, err |-> NoErr]

C11_Witness ==
    /\ ValidLeafCall /\ last.n = 6 /\ last.m = 5
    /\ last.err = NoErr /\ last.node = leafNodes[6]
    /\ last.node = treeRoot.Right.Right

\* CalcInclusionProof ran on the proof file with a readable file and an index
\* below the tree size
CalcInRange ==
    /\ proofFile # Nil /\ calc.done /\ calc.reader.ok
    /\ proofFile.LeafIndex < proofFile.TreeSize

\* C12: with leaf_index < tree_size and a readable file CalcInclusionProof
\* returns the size-mismatch error exactly when the path length differs from
\* the audit-path length of (leaf_index, tree_size). A path too long stops at
\* the first surplus sibling with sn == 0; a path too short runs through and
\* ends with sn != 0; a path of the right length ends with sn == 0 and a
\* candidate root is returned.
C12_MismatchIffWrongLength ==
    CalcInRange =>
        LET path == proofFile.Proof
            have == Len(path)
            need == Len(RefDirs(proofFile.LeafIndex, proofFile.TreeSize))
            tr   == LoopStates(path, 1, proofFile.LeafIndex, proofFile.TreeSize - 1)
            end  == tr[Len(tr)]
        IN  /\ calc.err \in {NoErr, ErrMismatch}
            /\ calc.err = ErrMismatch <=> have # need
            /\ calc.err = ErrMismatch <=>
                  \/ end.i <= have /\ end.sn = 0
                  \/ end.i = have + 1 /\ end.sn # 0
            /\ calc.err = ErrMismatch => calc.hash = Nil
            /\ have > need => end.i = need + 1 /\ end.sn = 0
            /\ have < need => end.i = have + 1 /\ end.sn # 0
            /\ have = need =>
                  /\ end.i = have + 1 /\ end.sn = 0
                  /\ calc.err = NoErr /\ calc.hash # Nil

\* the proof of leaf 2 of 5, three siblings long, cut to one sibling
C12_Witness ==
    /\ CalcInRange /\ tamper = "length"
    /\ proofFile.TreeSize = 5 /\ proofFile.LeafIndex = 2
    /\ Len(proofFile.Proof) = 1
    /\ calc.err = ErrMismatch

\* the iteration that starts in loop state st reads a sibling and takes the
\* branch that hashes it on the left, the branch holding the inner loop
LeftBranch(st) ==
    /\ st.i <= Len(proofFile.Proof)
    /\ st.sn # 0
    /\ (st.fn % 2 = 1 \/ st.fn = st.sn)

\* C13: the inner shift loop is never reached with fn == 0. Where the branch
\* is taken with fn even, fn == sn > 0; the loop then shifts fn and sn by the
\* same number of bits, at least one and finitely many, and stops with fn odd
\* and fn == sn, so by the parity test and not by fn != 0. With fn odd the loop
\* body does not run.
C13_ShiftLoopStopsOnOddFn ==
    CalcInRange =>
        LET tr == LoopStates(proofFile.Proof, 1, proofFile.LeafIndex,
                             proofFile.TreeSize - 1)
        IN  \A j \in 1..Len(tr) :
              LET st == tr[j]
                  s  == ShiftLoop(st.fn, st.sn)
              IN  LeftBranch(st) =>
                    /\ st.fn # 0
                    /\ s.fn % 2 = 1
                    /\ st.fn % 2 = 1 => s = [fn |-> st.fn, sn |-> st.sn]
                    /\ st.fn % 2 = 0 =>
                          /\ st.fn = st.sn /\ st.sn > 0
                          /\ s.fn = s.sn
                          /\ \E t \in 1..(MaxLeaves + SizeSlack) :
                                st.fn = s.fn * 2 ^ t /\ st.sn = s.sn * 2 ^ t
                    /\ tr[j + 1].fn = Shr(s.fn, 1) /\ tr[j + 1].sn = Shr(s.sn, 1)

\* leaf 4 of 5: the only sibling is met with fn == sn == 4, shifted to 1
C13_Witness ==
    /\ CalcInRange /\ tamper = "none"
    /\ proofFile.TreeSize = 5 /\ proofFile.LeafIndex = 4
    /\ calc.err = NoErr
    /\ LET tr == LoopStates(proofFile.Proof, 1, 4, 4) IN
         /\ LeftBranch(tr[1]) /\ tr[1].fn = 4 /\ tr[1].sn = 4
         /\ ShiftLoop(4, 4) = [fn |-> 1, sn |-> 1]
         /\ tr[2].fn = 0 /\ tr[2].sn = 0

\* the select loop was left through break outer: nil was received, every
\* worker has returned and every enumerated file has its leaf in leaves
ExitedByNil ==
    /\ cpc = "build" /\ sig = "done" /\ genErr = Nil
    /\ \A w \in Workers : wstate[w].pc = "done" /\ ~Failed(w)
    /\ Len(leaves) = Len(filePaths)

\* the select loop was left through return err, with a worker's error
ExitedByErr ==
    /\ cpc = "returned" /\ sig = "wait"
    /\ \E w \in Workers : Failed(w) /\ wstate[w].pc = "done" /\ genErr = wstate[w].err

\* C14: under fair scheduling the coordinator always leaves the select loop,
\* for 0..MaxFiles files, every set of failing files and the workers gen
\* starts: by receiving nil once every leaf has been received, or by receiving
\* an error. It never waits on leafCh and errCh for ever.
C14_CoordinatorExits == <>(ExitedByNil \/ ExitedByErr)

\* nil received after three leaves, the second file's leaf having come first
C14_Witness ==
    /\ ExitedByNil /\ Len(leaves) = 3 /\ leaves[1].Name = 2
    /\ wg = 0 /\ pathClosed
====
